---- MODULE Spec2Model ----
(***************************************************************************)
(* Model of the cashback bot's recognition pipeline:                       *)
(*   cashback_bot/services/queue.py     per-owner queue and lock           *)
(*   cashback_bot/handlers/ocr_flow.py  handle_photo                       *)
(*   cashback_bot/services/ocr.py       OCRService.read_text / _perform_ocr*)
(*   cashback_bot/services/parser.py    ParserService                      *)
(*   cashback_bot/services/categories.py CategoryService                   *)
(*                                                                         *)
(* Texts are sequences of one-character strings.  Cyrillic letters are     *)
(* written as ASCII atoms: "A_ru", "Z_ru", "S_ru" stand for the Cyrillic   *)
(* capital letters A, Ze, Es and "a_ru", "z_ru", "s_ru" for the small      *)
(* ones; "C" and "c" are the Latin letters.  "\n" is the line break.       *)
(***************************************************************************)
EXTENDS Integers, Sequences, FiniteSets, TLC

(* ------------------------------ bounds --------------------------------- *)

NumOwners == 2

NumHandlers == 3

(* --------------------------- program constants ------------------------- *)

workers == 2

MIN_SIZE == 1024

MAX_SIZE == 8388608

LINE_CAP == 80

\* Optional[str]: None, or a str value
None == [none |-> TRUE]

Str(t) == [str |-> t]

\* Python truthiness of an Optional[str]: "not text"
Falsy(text) == text = None \/ text.str = <<>>

(* ------------------------------- strings ------------------------------- *)

Digits == {"0", "1", "2", "3", "4", "5", "6", "7", "8", "9"}

Letters == {"a", "b", "c", "n", "C", "A_ru", "Z_ru", "S_ru", "a_ru", "z_ru", "s_ru"}

Whitespace == {" ", "\n", "\t"}

\* str.isalnum() of one character
IsAlnumChar(ch) == ch \in Digits \cup Letters

\* str.isalnum(): non-empty and every character alphanumeric
isalnum(s) == Len(s) > 0 /\ \A i \in 1..Len(s) : IsAlnumChar(s[i])

RECURSIVE lstrip(_)
lstrip(s) == IF s # <<>> /\ Head(s) \in Whitespace THEN lstrip(Tail(s)) ELSE s

RECURSIVE rstrip(_)
rstrip(s) ==
    IF s # <<>> /\ s[Len(s)] \in Whitespace
    THEN rstrip(SubSeq(s, 1, Len(s) - 1))
    ELSE s

\* str.strip()
strip(s) == rstrip(lstrip(s))

\* s[:n]
Prefix(s, n) == SubSeq(s, 1, IF n < Len(s) THEN n ELSE Len(s))

StartsWith(s, old) == Len(old) <= Len(s) /\ SubSeq(s, 1, Len(old)) = old

\* str.replace(old, new): leftmost non-overlapping occurrences, old non-empty
RECURSIVE replace(_, _, _)
replace(s, old, new) ==
    LET found == {i \in 1..(Len(s) - Len(old) + 1) :
                    SubSeq(s, i, i + Len(old) - 1) = old}
    IN  IF found = {} THEN s
        ELSE LET i == CHOOSE x \in found : \A y \in found : x <= y
             IN  SubSeq(s, 1, i - 1) \o new
                 \o replace(SubSeq(s, i + Len(old), Len(s)), old, new)

\* str.splitlines() for "\n" line breaks: no trailing empty line
splitlines(text) ==
    LET breaks == {i \in 1..Len(text) : text[i] = "\n"}
        n == Cardinality(breaks)
        \* where the k-th line break stands; the ends of the text for 0, n + 1
        brk(k) == IF k = 0 THEN 0
                  ELSE IF k = n + 1 THEN Len(text) + 1
                  ELSE CHOOSE i \in breaks :
                          Cardinality({j \in breaks : j < i}) = k - 1
        count == IF text = <<>> \/ text[Len(text)] = "\n" THEN n ELSE n + 1
    IN  [k \in 1..count |-> SubSeq(text, brk(k - 1) + 1, brk(k) - 1)]

\* "\n".join(lines)
RECURSIVE join(_)
join(lines) ==
    IF lines = <<>> THEN <<>>
    ELSE IF Len(lines) = 1 THEN lines[1]
         ELSE lines[1] \o <<"\n">> \o join(Tail(lines))

(* --------------------- OCRService._postprocess ------------------------- *)

\* the per-line clean-up of _postprocess, before the alphanumeric filter
CleanLine(line) ==
    LET stripped == strip(line)
        fixed1 == replace(stripped, <<"A_ru", "Z_ru", "C">>, <<"A_ru", "Z_ru", "S_ru">>)
        fixed2 == replace(fixed1, <<"a_ru", "z_ru", "c">>, <<"a_ru", "z_ru", "s_ru">>)
        spaced == replace(fixed2, <<"%">>, <<" ", "%">>)
    IN  IF Len(spaced) > LINE_CAP THEN Prefix(spaced, LINE_CAP) ELSE spaced

\* first loop of _postprocess: the kept lines, in input order
RECURSIVE KeptLines(_)
KeptLines(raw) ==
    IF raw = <<>> THEN <<>>
    ELSE LET cleaned == CleanLine(Head(raw))
         IN  IF strip(Head(raw)) = <<>> THEN KeptLines(Tail(raw))
             ELSE IF isalnum(replace(cleaned, <<" ">>, <<>>)) THEN KeptLines(Tail(raw))
                  ELSE <<cleaned>> \o KeptLines(Tail(raw))

\* lines 86-91 keep the first occurrence of every line
AllLines(lines, seen) == lines

\* second loop of _postprocess: drop repeated lines, keep first occurrences
RECURSIVE UniqueLines(_, _)
UniqueLines(lines, seen) ==
    IF lines = <<>> THEN <<>>
    ELSE IF Head(lines) \in seen THEN UniqueLines(Tail(lines), seen)
         ELSE <<Head(lines)>> \o UniqueLines(Tail(lines), seen \cup {Head(lines)})

_postprocess(text) == join(UniqueLines(KeptLines(splitlines(text)), {}))

(* ---------------------- OCRService._perform_ocr ------------------------ *)

\* line 62, "if not text": the alternate pass is needed
NeedsFallbackAlways(text) == TRUE

NeedsFallback(text) == text = <<>>

\* lines 66-67: normalized = self._postprocess(text or ""); normalized or None
NormalizedOrNone(text) ==
    LET normalized == _postprocess(text)
    IN  IF normalized = <<>> THEN None ELSE Str(normalized)

\* _perform_ocr as a function of the engine's answers: image_ok is whether
\* cv2.imread decoded the file, primary_text and fallback_text are what
\* _extract_text returns for the primary and for the alternate pass
_perform_ocr(image_ok, primary_text, fallback_text) ==
    IF ~image_ok THEN [result |-> None]
    ELSE [result |-> NormalizedOrNone(IF NeedsFallback(primary_text)
                                      THEN fallback_text
                                      ELSE primary_text)]

(* --------------------------- ParserService ----------------------------- *)

\* character class of the name group: [\w\s(Cyrillic)&]
NameClass == Letters \cup Digits \cup Whitespace \cup {"_", "&"}

\* index just after the longest run of characters of class cls starting at p
RECURSIVE RunEnd(_, _, _)
RunEnd(s, p, cls) ==
    IF p <= Len(s) /\ s[p] \in cls THEN RunEnd(s, p + 1, cls) ELSE p

\* the part of CATEGORY_PATTERN after the name group, tried at index p:
\*   \s*[-:]*\s*(?P<rate>\d+[\.,]?\d*)\s*%
MatchRest(s, p) ==
    LET p1 == RunEnd(s, p, Whitespace)
        p2 == RunEnd(s, p1, {"-", ":"})
        p3 == RunEnd(s, p2, Whitespace)
        d1 == RunEnd(s, p3, Digits)
        p4 == IF d1 <= Len(s) /\ s[d1] \in {".", ","} THEN d1 + 1 ELSE d1
        p5 == RunEnd(s, p4, Digits)
        p6 == RunEnd(s, p5, Whitespace)
    IN  [ok   |-> d1 > p3 /\ p6 <= Len(s) /\ s[p6] = "%",
         rate |-> SubSeq(s, p3, p5 - 1),
         end  |-> p6 + 1]

\* the name lengths for which CATEGORY_PATTERN matches at start index i
NameLens(s, i) ==
    {n \in 1..(RunEnd(s, i, NameClass) - i) : MatchRest(s, i + n).ok}

Max(S) == CHOOSE x \in S : \A y \in S : y <= x

\* value of a run of decimal digits
RECURSIVE IntOf(_)
IntOf(ds) ==
    IF ds = <<>> THEN 0
    ELSE 10 * IntOf(SubSeq(ds, 1, Len(ds) - 1))
         + (CHOOSE d \in 0..9 : ToString(d) = ds[Len(ds)])

\* the digits-and-point literals float() accepts: digits, optional ".",
\* digits, with at least one digit
IsDecimal(s) ==
    LET d1 == RunEnd(s, 1, Digits)
        p4 == IF d1 <= Len(s) /\ s[d1] = "." THEN d1 + 1 ELSE d1
        p5 == RunEnd(s, p4, Digits)
    IN  p5 = Len(s) + 1 /\ (d1 > 1 \/ p5 > p4)

\* float() of such a literal, in hundredths; digits after the second
\* decimal place are not represented
float(s) ==
    LET d1 == RunEnd(s, 1, Digits)
        frac == SubSeq(s, d1 + 1, Len(s))
        f2 == Prefix(frac \o <<"0", "0">>, 2)
    IN  100 * IntOf(SubSeq(s, 1, d1 - 1)) + IntOf(f2)

CashbackItem(name, rate) == [category |-> name, rate |-> rate]

\* CATEGORY_PATTERN.finditer(text) from index pos: leftmost match, the name
\* group greedy, the scan resuming at the end of each match
RECURSIVE FindIter(_, _)
FindIter(s, pos) ==
    LET starts == {i \in pos..Len(s) : NameLens(s, i) # {}}
    IN  IF starts = {} THEN <<>>
        ELSE LET i == CHOOSE x \in starts : \A y \in starts : x <= y
                 n == Max(NameLens(s, i))
                 m == MatchRest(s, i + n)
             IN  <<CashbackItem(strip(SubSeq(s, i, i + n - 1)),
                                float(replace(m.rate, <<",">>, <<".">>)))>>
                 \o FindIter(s, m.end)

\* re.split(r"-|:", raw): the segments between separators
RECURSIVE SplitSep(_, _, _)
SplitSep(s, cur, acc) ==
    IF s = <<>> THEN Append(acc, cur)
    ELSE IF Head(s) \in {"-", ":"} THEN SplitSep(Tail(s), <<>>, Append(acc, cur))
         ELSE SplitSep(Tail(s), Append(cur, Head(s)), acc)

\* float() also accepts the literal "nan"
IsNaN(s) == s = <<"n", "a", "n">>

\* CashbackItem.rate is Field(ge=0): the constructor raises ValidationError
\* for a rate that is not >= 0, which is so for nan
RateAdmissible(rate_part) == ~IsNaN(rate_part)

\* _parse_lines: the items, or raises when a CashbackItem cannot be built
RECURSIVE _parse_lines(_)
_parse_lines(lines) ==
    IF lines = <<>> THEN [raises |-> FALSE, items |-> <<>>]
    ELSE LET parts == SplitSep(Head(lines), <<>>, <<>>)
             rate_part == replace(replace(strip(parts[2]), <<"%">>, <<>>),
                                  <<",">>, <<".">>)
             rest == _parse_lines(Tail(lines))
         IN  IF Len(parts) < 2 THEN rest
             ELSE IF ~(IsDecimal(rate_part) \/ IsNaN(rate_part)) THEN rest
             ELSE IF ~RateAdmissible(rate_part)
                  THEN [raises |-> TRUE, items |-> <<>>]
             ELSE IF rest.raises THEN rest
             ELSE [raises |-> FALSE,
                   items |-> <<CashbackItem(strip(parts[1]),
                                            float(rate_part))>> \o rest.items]

\* line 20, "if not categories": the line strategy is needed
NeedsLineStrategyAlways(categories) == TRUE

NeedsLineStrategy(categories) == categories = <<>>

\* line 23: quality, 1 for 1.0 and 0 for 0.0
QualityDefault(categories) == 1

QualityOf(categories) == IF categories # <<>> THEN 1 ELSE 0

\* parse: the ParsedResult, or raises
parse(text) ==
    LET matched == FindIter(text, 1)
        fallback == IF NeedsLineStrategy(matched)
                    THEN _parse_lines(splitlines(text))
                    ELSE [raises |-> FALSE, items |-> <<>>]
        categories == matched \o fallback.items
    IN  IF fallback.raises
        THEN [raises |-> TRUE, text |-> text, categories |-> <<>>,
              quality |-> 0]
        ELSE [raises |-> FALSE, text |-> text, categories |-> categories,
              quality |-> QualityOf(categories)]


(* -------------------------- CategoryService ---------------------------- *)

\* Optional[List[str]] of BankCategory.merged_from: None, or the names held
NoNames == [none |-> TRUE]

Names(S) == [names |-> S]

BankCategory(name, rate) ==
    [name |-> name, rate |-> rate, merged_from |-> NoNames, deleted |-> FALSE]

LowerChar(ch) ==
    CASE ch = "C" -> "c"
      [] ch = "A_ru" -> "a_ru"
      [] ch = "Z_ru" -> "z_ru"
      [] ch = "S_ru" -> "s_ru"
      [] OTHER -> ch

\* str.lower()
lower(s) == [i \in 1..Len(s) |-> LowerChar(s[i])]

\* the grouping key of merge_duplicates: category.name.strip().lower()
MergeKey(name) == lower(strip(name))

\* the first loop of merge_duplicates; st holds the key order of the dict
\* merged, the dict itself and the synonyms lists
RECURSIVE MergeLoop(_, _)
MergeLoop(categories, st) ==
    IF categories = <<>> THEN st
    ELSE LET category == Head(categories)
             key == MergeKey(category.name)
         IN  IF key \in DOMAIN st.merged
             THEN LET existing == st.merged[key]
                      source_names ==
                          IF existing.merged_from = NoNames
                             \/ existing.merged_from.names = {}
                          THEN {existing.name}
                          ELSE existing.merged_from.names
                      updated ==
                          [existing EXCEPT
                             !.rate = IF existing.rate >= category.rate
                                      THEN existing.rate ELSE category.rate,
                             !.merged_from =
                                 Names(source_names \cup {category.name})]
                  IN  MergeLoop(Tail(categories),
                        [st EXCEPT
                           !.merged = [st.merged EXCEPT ![key] = updated],
                           !.synonyms = (key :> ((IF key \in DOMAIN st.synonyms
                                                  THEN st.synonyms[key]
                                                  ELSE {}) \cup {category.name}))
                                        @@ st.synonyms])
             ELSE MergeLoop(Tail(categories),
                    [st EXCEPT !.order = Append(st.order, key),
                               !.merged = (key :> category) @@ st.merged])

merge_duplicates(categories) ==
    LET st == MergeLoop(categories,
                        [order |-> <<>>, merged |-> <<>>, synonyms |-> <<>>])
        final(key) ==
            IF key \in DOMAIN st.synonyms
            THEN [st.merged[key] EXCEPT
                    !.merged_from =
                        Names({st.merged[key].name} \cup st.synonyms[key])]
            ELSE st.merged[key]
    IN  [i \in 1..Len(st.order) |-> final(st.order[i])]

\* the placeholder preview() returns for an empty list
NO_CATEGORIES == [placeholder |-> TRUE]

\* preview(): one rendered line per category, "<idx>. <name> - <rate>%",
\* kept as the triple of its fields, or the placeholder
preview(categories) ==
    IF categories = <<>> THEN NO_CATEGORIES
    ELSE [lines |-> [i \in 1..Len(categories) |->
                       <<i, categories[i].name, categories[i].rate>>]]


(* ------------------------ ImageSafetyService --------------------------- *)

\* validate() as a function of len(image_bytes)
validate_exclusive(size) ==
    IF size <= MIN_SIZE THEN [ok |-> FALSE, reason |-> "too_small"]
    ELSE IF size >= MAX_SIZE THEN [ok |-> FALSE, reason |-> "too_large"]
         ELSE [ok |-> TRUE, reason |-> "None"]

validate(size) ==
    IF size < MIN_SIZE THEN [ok |-> FALSE, reason |-> "too_small"]
    ELSE IF size > MAX_SIZE THEN [ok |-> FALSE, reason |-> "too_large"]
         ELSE [ok |-> TRUE, reason |-> "None"]

(* ------------------------------ the bot -------------------------------- *)

Owners == 1..NumOwners

\* one handle_photo invocation per incoming photo update
Handlers == 1..NumHandlers

\* the user_id of the update invocation h handles
HOwner(h) == ((h - 1) % NumOwners) + 1

\* the task invocation h builds: id stands for its bank_name and image_bytes
QueueTask(h) == [user_id |-> HOwner(h), id |-> h]

\* byte lengths of the photos sent
ImageSizes == {MIN_SIZE - 1, MIN_SIZE, MAX_SIZE + 1}

\* what the OCR engine may answer for a pass
SampleTexts ==
    { <<>>,
      <<"a", "b">>,
      <<"a", "-", "b">>,
      <<"a", " ", "5", "%">> }

\* the inputs of one _perform_ocr run: an undecodable file, or a decoded
\* image with the engine's answer for the primary pass and, for the runs
\* that reach it, for the alternate pass
EngineAnswers ==
    {[image_ok |-> FALSE, primary |-> <<>>, fallback |-> <<>>]}
    \cup {[image_ok |-> TRUE, primary |-> t1, fallback |-> <<>>] :
             t1 \in SampleTexts \ {<<>>}}
    \cup {[image_ok |-> TRUE, primary |-> <<>>, fallback |-> t2] :
             t2 \in SampleTexts}

VARIABLES
    pc,        \* where each handle_photo invocation stands
    queues,    \* WorkflowQueue._queues: user_id -> tasks, oldest first
    locked,    \* WorkflowQueue._locks: user_id -> the lock is held
    waiters,   \* WorkflowQueue._locks: user_id -> invocations waiting, oldest first
    file,      \* the temp file of invocation h's read_text exists
    job,       \* the worker-pool job of invocation h's read_text
    text,      \* the local "text" of invocation h: what read_text returned
    cats,      \* the local "merged" of invocation h
    banks,     \* storage: the rows save_bank inserted, per user_id
    accepted,  \* history: per owner, the task ids enqueued, in order
    dequeued,  \* history: per owner, the (task, invocation) pairs of next_task
    cause,     \* history: how the recognition of a running invocation ended
    ocr,       \* the _perform_ocr run of each worker thread, pass by pass
    mem,       \* CategoryService calls: the BankCategory objects and lists
    prs,       \* a ParserService.parse call, strategy by strategy
    img,       \* an ImageSafetyService.validate call
    game,      \* GamificationService.award calls and the users table
    del,       \* handle_delete calls and the banks table they work on
    wiz,       \* WizardService.finalize calls and the tables they write
    post       \* an OCRService._postprocess call: its text and what it returned

\* the state of the bot
bot == <<pc, queues, locked, waiters, file, job, text, cats, banks,
         accepted, dequeued, cause>>

\* the state of the services called on their own
lib == <<mem, prs, img, game, del, wiz, post>>

vars == <<bot, ocr, lib>>

\* a service on which no call has been made
NotCalled == [at |-> "idle"]

\* the threads of ThreadPoolExecutor(max_workers=workers)
Threads == 1..workers

IdleRun == [at |-> "idle", primary |-> <<>>, text |-> <<>>, passes |-> <<>>,
            result |-> None]

NoJob == [st |-> "none", abandoned |-> FALSE]

Pending == [pending |-> TRUE]

\* the bot after construction: no invocation has started
InitBot ==
    /\ pc = [h \in Handlers |-> "start"]
    /\ queues = [o \in Owners |-> <<>>]
    /\ locked = [o \in Owners |-> FALSE]
    /\ waiters = [o \in Owners |-> <<>>]
    /\ file = [h \in Handlers |-> FALSE]
    /\ job = [h \in Handlers |-> NoJob]
    /\ text = [h \in Handlers |-> Pending]
    /\ cats = [h \in Handlers |-> <<>>]
    /\ banks = [o \in Owners |-> <<>>]
    /\ accepted = [o \in Owners |-> <<>>]
    /\ dequeued = [o \in Owners |-> <<>>]
    /\ cause = [h \in Handlers |-> "none"]

Init ==
    /\ InitBot
    /\ ocr = [w \in Threads |-> IdleRun]
    /\ mem = NotCalled
    /\ prs = NotCalled
    /\ img = NotCalled
    /\ game = NotCalled
    /\ del = NotCalled
    /\ wiz = NotCalled
    /\ post = NotCalled

(* ---------------------------- WorkflowQueue ---------------------------- *)

\* has_pending(user_id): not queue.empty()
has_pending_never(user_id) == FALSE

has_pending(user_id) == queues[user_id] # <<>>

\* get_lock(user_id): which lock the caller gets
get_lock_shared(user_id) == 1

get_lock(user_id) == user_id

\* the queue after next_task returned its head
queue_after_get(q) == Tail(q)

\* asyncio.Lock.acquire() returns at once: lock free and nobody waiting
CanAcquireUnguarded(k) == TRUE

CanAcquire(k) == ~locked[k] /\ waiters[k] = <<>>

\* the states of handle_photo inside "async with queue.get_lock(user_id)"
LockedSectionOcrOnly == {"ocr_wait"}

LockedSection == {"ocr_wait", "reply_notext", "save", "log", "preview"}

\* locked after invocation h, holding lock k, moves on to state np
LockedAfter(h, k, np) ==
    IF pc[h] \in LockedSection /\ np \notin LockedSection
    THEN [locked EXCEPT ![k] = FALSE]
    ELSE locked

\* the two ways an invocation ends: it returned, or an exception left it
Ended == {"done", "raised"}

(* ----------------------------- handle_photo ---------------------------- *)

\* Lines 36-46: the admissibility check, the has_pending check and the
\* enqueue run without a suspension point; the invocation then awaits the
\* delivery of the reply it chose.
Submit(h) ==
    LET user_id == HOwner(h) IN
    /\ pc[h] = "start"
    /\ \E size \in ImageSizes :
         IF ~validate(size).ok
         THEN /\ pc' = [pc EXCEPT ![h] = "reply_unsuitable"]
              /\ UNCHANGED <<queues, accepted>>
         ELSE IF has_pending(user_id)
              THEN /\ pc' = [pc EXCEPT ![h] = "reply_busy"]
                   /\ UNCHANGED <<queues, accepted>>
              ELSE /\ queues' = [queues EXCEPT
                                   ![user_id] = Append(@, QueueTask(h))]
                   /\ accepted' = [accepted EXCEPT ![user_id] = Append(@, h)]
                   /\ pc' = [pc EXCEPT ![h] = "reply_started"]
    /\ UNCHANGED <<ocr, lib, locked, waiters, file, job, text, cats, banks, dequeued,
                   cause>>

\* Lines 38-39 and 43-44: the rejection reply is delivered (ok) or raises,
\* and the invocation ends.
RejectionReply(h) ==
    /\ pc[h] \in {"reply_unsuitable", "reply_busy"}
    /\ \E ok \in BOOLEAN : pc' = [pc EXCEPT ![h] = IF ok THEN "done" ELSE "raised"]
    /\ UNCHANGED <<ocr, lib, queues, locked, waiters, file, job, text, cats, banks,
                   accepted, dequeued, cause>>

\* Line 46 raises (the reply could not be delivered): the invocation ends
\* before it reaches the lock, its task stays in the queue.
StatusReplyFails(h) ==
    /\ pc[h] = "reply_started"
    /\ pc' = [pc EXCEPT ![h] = "raised"]
    /\ UNCHANGED <<ocr, lib, queues, locked, waiters, file, job, text, cats, banks,
                   accepted, dequeued, cause>>

\* Lines 48-51 up to the suspension inside read_text, run by invocation h in
\* the step in which it got lock k: next_task, then read_text's mkstemp, the
\* write of the image bytes and the submission to the worker pool.  io is
\* how the environment answers: "ok", "write_error" (the write raises
\* OSError, before the try block is entered) or "submit_error"
\* (run_in_executor raises RuntimeError, inside the try block).
Proceed(h, k, io) ==
    LET user_id == HOwner(h)
        np == IF queues[user_id] = <<>> THEN "done"
              ELSE IF io = "ok" THEN "ocr_wait" ELSE "raised"
    IN
    /\ pc' = [pc EXCEPT ![h] = np]
    /\ locked' = [locked EXCEPT ![k] = (np \in LockedSection)]
    /\ IF queues[user_id] = <<>>
       THEN UNCHANGED <<queues, dequeued, file, job>>
       ELSE /\ queues' = [queues EXCEPT ![user_id] = queue_after_get(@)]
            /\ dequeued' = [dequeued EXCEPT ![user_id] =
                              Append(@, [task |-> Head(queues[user_id]),
                                         by |-> h])]
            /\ file' = [file EXCEPT ![h] = (io # "submit_error")]
            /\ job' = [job EXCEPT ![h] =
                         IF io = "ok"
                         THEN [st |-> "queued", abandoned |-> FALSE]
                         ELSE NoJob]

IOAnswers == {"ok", "write_error", "submit_error"}

\* Line 46 returns and line 47 is reached: the lock is taken at once when
\* it is free, otherwise the invocation joins the lock's waiters.
StatusReplySent(h) ==
    LET k == get_lock(HOwner(h)) IN
    /\ pc[h] = "reply_started"
    /\ IF CanAcquire(k)
       THEN /\ \E io \in IOAnswers : Proceed(h, k, io)
            /\ UNCHANGED waiters
       ELSE /\ waiters' = [waiters EXCEPT ![k] = Append(@, h)]
            /\ pc' = [pc EXCEPT ![h] = "wait_lock"]
            /\ UNCHANGED <<queues, locked, file, job, dequeued>>
    /\ UNCHANGED <<ocr, lib, text, cats, banks, accepted, cause>>

\* The lock was released and invocation h is its first waiter: it is woken
\* and takes the lock.
LockGranted(h) ==
    LET k == get_lock(HOwner(h)) IN
    /\ pc[h] = "wait_lock"
    /\ ~locked[k]
    /\ waiters[k] # <<>> /\ Head(waiters[k]) = h
    /\ waiters' = [waiters EXCEPT ![k] = Tail(@)]
    /\ \E io \in IOAnswers : Proceed(h, k, io)
    /\ UNCHANGED <<ocr, lib, text, cats, banks, accepted, cause>>


(* ------------------- the worker pool of OCRService --------------------- *)

Running == {h \in Handlers : job[h].st = "running"}

\* ThreadPoolExecutor(max_workers=workers): a queued job starts when a
\* worker thread is free
WorkerStart(h) ==
    /\ job[h].st = "queued"
    /\ Cardinality(Running) < workers
    /\ job' = [job EXCEPT ![h].st = "running"]
    /\ UNCHANGED <<ocr, lib, pc, queues, locked, waiters, file, text, cats, banks,
                   accepted, dequeued, cause>>

\* _perform_ocr returns on its worker thread.  The result of a job whose
\* caller has timed out is dropped.
WorkerFinish(h) ==
    /\ job[h].st = "running"
    /\ IF job[h].abandoned
       THEN job' = [job EXCEPT ![h] = NoJob]
       ELSE \E in \in EngineAnswers :
              job' = [job EXCEPT ![h] =
                        [st |-> "finished", abandoned |-> FALSE,
                         result |-> _perform_ocr(in.image_ok, in.primary,
                                                 in.fallback).result]]
    /\ UNCHANGED <<ocr, lib, pc, queues, locked, waiters, file, text, cats, banks,
                   accepted, dequeued, cause>>

\* the OCR engine raises inside _extract_text
WorkerRaises(h) ==
    /\ job[h].st = "running"
    /\ job' = [job EXCEPT ![h] =
                 IF job[h].abandoned THEN NoJob
                 ELSE [st |-> "failed", abandoned |-> FALSE]]
    /\ UNCHANGED <<ocr, lib, pc, queues, locked, waiters, file, text, cats, banks,
                   accepted, dequeued, cause>>

(* ------------------ OCRService.read_text, resumed ---------------------- *)

\* what the except clause of read_text does on asyncio.TimeoutError
OnTimeoutReraise == [raises |-> TRUE, value |-> None]

OnTimeout == [raises |-> FALSE, value |-> None]

\* the temp file after read_text's finally clause: unlink(missing_ok=True)
AfterFinally(exists) == FALSE

\* wait_for times out before the job is done: a job still queued is
\* cancelled, a running one keeps its worker thread; the except clause and
\* the finally clause run, and handle_photo goes on at line 52.
Timeout(h) ==
    LET k == get_lock(HOwner(h))
        np == IF OnTimeout.raises THEN "raised" ELSE "reply_notext"
    IN
    /\ pc[h] = "ocr_wait"
    /\ job[h].st \in {"queued", "running"}
    /\ job' = [job EXCEPT ![h] =
                 IF job[h].st = "queued" THEN NoJob
                 ELSE [st |-> "running", abandoned |-> TRUE]]
    /\ file' = [file EXCEPT ![h] = AfterFinally(@)]
    /\ cause' = [cause EXCEPT ![h] = "timeout"]
    /\ text' = [text EXCEPT ![h] =
                  IF OnTimeout.raises THEN Pending ELSE OnTimeout.value]
    /\ pc' = [pc EXCEPT ![h] = np]
    /\ locked' = LockedAfter(h, k, np)
    /\ UNCHANGED <<ocr, lib, queues, waiters, cats, banks, accepted, dequeued>>

\* wait_for returns the worker's result; the finally clause runs; lines
\* 52-57 of handle_photo follow up to the next suspension point.
OcrReturns(h) ==
    /\ pc[h] = "ocr_wait"
    /\ job[h].st = "finished"
    /\ \E k \in {get_lock(HOwner(h))}, result \in {job[h].result} :
       \E parsed \in {IF Falsy(result) THEN parse(<<>>) ELSE parse(result.str)} :
       \E np \in {IF Falsy(result) THEN "reply_notext"
                  ELSE IF parsed.raises THEN "raised" ELSE "save"} :
         /\ job' = [job EXCEPT ![h] = NoJob]
         /\ file' = [file EXCEPT ![h] = AfterFinally(@)]
         /\ text' = [text EXCEPT ![h] =
                       IF np = "raised" THEN Pending ELSE result]
         /\ cause' = [cause EXCEPT ![h] =
                        IF np = "raised" THEN "none"
                        ELSE IF result = None THEN "no_text" ELSE "text"]
         /\ cats' = [cats EXCEPT ![h] =
                       IF np # "save" THEN <<>>
                       ELSE merge_duplicates(
                              [i \in 1..Len(parsed.categories) |->
                                 BankCategory(parsed.categories[i].category,
                                              parsed.categories[i].rate)])]
         /\ pc' = [pc EXCEPT ![h] = np]
         /\ locked' = LockedAfter(h, k, np)
    /\ UNCHANGED <<ocr, lib, queues, waiters, banks, accepted, dequeued>>

\* wait_for re-raises the worker's exception; the finally clause runs and
\* the exception leaves read_text and handle_photo.
OcrRaises(h) ==
    LET k == get_lock(HOwner(h)) IN
    /\ pc[h] = "ocr_wait"
    /\ job[h].st = "failed"
    /\ job' = [job EXCEPT ![h] = NoJob]
    /\ file' = [file EXCEPT ![h] = AfterFinally(@)]
    /\ pc' = [pc EXCEPT ![h] = "raised"]
    /\ locked' = LockedAfter(h, k, "raised")
    /\ UNCHANGED <<ocr, lib, queues, waiters, text, cats, banks, accepted, dequeued,
                   cause>>

(* --------------------- handle_photo, lines 52-60 ----------------------- *)

\* invocation h, holding lock k, ends: its locals are gone
Ends(h, k, np) ==
    /\ pc' = [pc EXCEPT ![h] = np]
    /\ locked' = LockedAfter(h, k, np)
    /\ text' = [text EXCEPT ![h] = Pending]
    /\ cats' = [cats EXCEPT ![h] = <<>>]
    /\ cause' = [cause EXCEPT ![h] = "none"]

\* Lines 53-54: the "no text" reply is delivered (ok) or raises; either
\* way the invocation leaves the lock.
NoTextReply(h) ==
    /\ pc[h] = "reply_notext"
    /\ \E ok \in BOOLEAN :
         Ends(h, get_lock(HOwner(h)), IF ok THEN "done" ELSE "raised")
    /\ UNCHANGED <<ocr, lib, queues, waiters, file, job, banks, accepted, dequeued>>

\* Line 58: storage.save_bank inserts the bank row (ok) or raises.
SaveBank(h) ==
    LET k == get_lock(HOwner(h)) IN
    /\ pc[h] = "save"
    /\ \E ok \in BOOLEAN :
         IF ok
         THEN /\ banks' = [banks EXCEPT ![HOwner(h)] =
                             Append(@, [user_id |-> HOwner(h),
                                        categories |-> cats[h]])]
              /\ pc' = [pc EXCEPT ![h] = "log"]
              /\ locked' = LockedAfter(h, k, "log")
              /\ UNCHANGED <<text, cats, cause>>
         ELSE /\ Ends(h, k, "raised")
              /\ UNCHANGED banks
    /\ UNCHANGED <<ocr, lib, queues, waiters, file, job, accepted, dequeued>>

\* Line 59: storage.log_ocr returns (ok) or raises.
LogOcr(h) ==
    LET k == get_lock(HOwner(h)) IN
    /\ pc[h] = "log"
    /\ \E ok \in BOOLEAN :
         IF ok
         THEN /\ pc' = [pc EXCEPT ![h] = "preview"]
              /\ locked' = LockedAfter(h, k, "preview")
              /\ UNCHANGED <<text, cats, cause>>
         ELSE Ends(h, k, "raised")
    /\ UNCHANGED <<ocr, lib, queues, waiters, file, job, banks, accepted, dequeued>>

\* Line 60: the preview reply is delivered (ok) or raises.
PreviewReply(h) ==
    /\ pc[h] = "preview"
    /\ \E ok \in BOOLEAN :
         Ends(h, get_lock(HOwner(h)), IF ok THEN "done" ELSE "raised")
    /\ UNCHANGED <<ocr, lib, queues, waiters, file, job, banks, accepted, dequeued>>

Next ==
    \/ \E h \in Handlers : Submit(h)
    \/ \E h \in Handlers : RejectionReply(h)
    \/ \E h \in Handlers : StatusReplyFails(h)
    \/ \E h \in Handlers : StatusReplySent(h)
    \/ \E h \in Handlers : LockGranted(h)
    \/ \E h \in Handlers : WorkerStart(h)
    \/ \E h \in Handlers : WorkerFinish(h)
    \/ \E h \in Handlers : WorkerRaises(h)
    \/ \E h \in Handlers : Timeout(h)
    \/ \E h \in Handlers : OcrReturns(h)
    \/ \E h \in Handlers : OcrRaises(h)
    \/ \E h \in Handlers : NoTextReply(h)
    \/ \E h \in Handlers : SaveBank(h)
    \/ \E h \in Handlers : LogOcr(h)
    \/ \E h \in Handlers : PreviewReply(h)

Spec == Init /\ [][Next]_vars

(* ----------------- OCRService._perform_ocr, pass by pass --------------- *)
(* SpecOcr follows the runs of _perform_ocr on the pool's worker threads   *)
(* statement by statement; the bot's state stays as Init leaves it.        *)

\* a worker thread takes a job: _perform_ocr is entered
OcrBegin(w) ==
    /\ ocr[w].at \in {"idle", "returned", "raised"}
    /\ UNCHANGED <<bot, lib>>
    /\ ocr' = [ocr EXCEPT ![w] = [IdleRun EXCEPT !.at = "imread"]]

\* lines 55-58: cv2.imread; an undecodable file ends the run with None
OcrImread(w) ==
    /\ ocr[w].at = "imread"
    /\ UNCHANGED <<bot, lib>>
    /\ \E image_ok \in BOOLEAN :
         ocr' = [ocr EXCEPT ![w].at = IF image_ok THEN "primary" ELSE "returned"]

\* lines 60-62: the primary pass and the test of its text
OcrPrimary(w) ==
    /\ ocr[w].at = "primary"
    /\ UNCHANGED <<bot, lib>>
    /\ \E t \in SampleTexts :
         ocr' = [ocr EXCEPT
                   ![w].primary = t,
                   ![w].text = t,
                   ![w].passes = Append(@, "primary"),
                   ![w].at = IF NeedsFallback(t) THEN "fallback"
                             ELSE "postprocess"]

\* lines 63-65: the alternate pass
OcrFallback(w) ==
    /\ ocr[w].at = "fallback"
    /\ UNCHANGED <<bot, lib>>
    /\ \E t \in SampleTexts :
         ocr' = [ocr EXCEPT
                   ![w].text = t,
                   ![w].passes = Append(@, "fallback"),
                   ![w].at = "postprocess"]

\* line 71: pytesseract raises in the pass that is about to run; the
\* exception ends the run
OcrEngineRaises(w) ==
    /\ ocr[w].at \in {"primary", "fallback"}
    /\ UNCHANGED <<bot, lib>>
    /\ ocr' = [ocr EXCEPT ![w].at = "raised"]

\* lines 66-67
OcrPostprocess(w) ==
    /\ ocr[w].at = "postprocess"
    /\ UNCHANGED <<bot, lib>>
    /\ ocr' = [ocr EXCEPT ![w].result = NormalizedOrNone(ocr[w].text),
                          ![w].at = "returned"]

NextOcr ==
    \/ \E w \in Threads : OcrBegin(w)
    \/ \E w \in Threads : OcrImread(w)
    \/ \E w \in Threads : OcrPrimary(w)
    \/ \E w \in Threads : OcrFallback(w)
    \/ \E w \in Threads : OcrEngineRaises(w)
    \/ \E w \in Threads : OcrPostprocess(w)

SpecOcr == Init /\ [][NextOcr]_vars


(* =========================== the claims =============================== *)

\* invocation h has taken a task with next_task
HasDequeued(h) ==
    \E j \in 1..Len(dequeued[HOwner(h)]) : dequeued[HOwner(h)][j].by = h

\* invocation h is in the Processing section: it has dequeued a task under
\* the owner's lock and has not yet left handle_photo
InProcessing(h) == HasDequeued(h) /\ pc[h] \notin Ended

ProcessingOf(o) == {h \in Handlers : HOwner(h) = o /\ InProcessing(h)}

\* C1: for one owner, under any interleaving of concurrent handle_photo
\* invocations, at most one invocation at a time is in the Processing
\* section (between its dequeue under the owner's lock and leaving the lock).
C1_MutualExclusion ==
    \A o \in Owners : Cardinality(ProcessingOf(o)) <= 1

\* one invocation is in Processing while another of the same owner, whose
\* task was accepted, waits for the owner's lock
C1_Witness ==
    \E h1, h2 \in Handlers :
        /\ h1 # h2 /\ HOwner(h1) = HOwner(h2)
        /\ InProcessing(h1)
        /\ pc[h2] = "wait_lock"

\* C2: a submission that finds the owner's queue non-empty gets the busy
\* reply (if its image is admissible at all) and enqueues nothing, and no
\* step ever leaves more than one task in an owner's queue.
C2_BusyEnqueuesNothing ==
    [][ /\ \A h \in Handlers :
             (pc[h] = "start" /\ pc'[h] # "start"
                 /\ queues[HOwner(h)] # <<>>)
             => /\ pc'[h] \in {"reply_busy", "reply_unsuitable"}
                /\ queues' = queues
                /\ accepted' = accepted
        /\ \A o \in Owners : Len(queues'[o]) <= 1 ]_vars

\* a submission got the busy reply while the owner's queue holds its one task
C2_Witness ==
    \E h \in Handlers :
        pc[h] = "reply_busy" /\ Len(queues[HOwner(h)]) = 1

\* C3: at any time each owner has at most one in-flight job, counting the
\* task waiting in the owner's queue and the task dequeued and being
\* processed under the owner's lock.
C3_AtMostOneInFlight ==
    \A o \in Owners : Len(queues[o]) + Cardinality(ProcessingOf(o)) <= 1

\* the place of task t in the order in which owner o's tasks were accepted
PlaceOf(o, t) == CHOOSE i \in 1..Len(accepted[o]) : accepted[o][i] = t

\* C4: for one owner, accepted tasks are processed in submission order: at
\* the step that dequeues task B, every task A enqueued before B has been
\* dequeued, the invocation that took A has ended (normally or with an
\* error), and the owner's lock is free.
C4_SubmissionOrder ==
    [][ \A o \in Owners :
          dequeued'[o] # dequeued[o]
          => LET B == dequeued'[o][Len(dequeued'[o])].task.id IN
             /\ ~locked[o]
             /\ \A i \in 1..(PlaceOf(o, B) - 1) :
                  \E j \in 1..Len(dequeued[o]) :
                      /\ dequeued[o][j].task.id = accepted[o][i]
                      /\ pc[dequeued[o][j].by] \in Ended ]_vars

\* two tasks of one owner were accepted one after the other and both have
\* been dequeued
C4_Witness ==
    \E o \in Owners :
        /\ Len(dequeued[o]) = 2
        /\ dequeued[o][1].task.id = accepted[o][1]
        /\ dequeued[o][2].task.id = accepted[o][2]

\* C5: handlers of different owners never block each other through the
\* queue or the lock: a step in which no invocation of owner o moves leaves
\* o's queue, lock and lock waiters as they are, and an invocation waits for
\* a lock only when another invocation of its own owner has taken a task
\* under it.
C5_OwnersIndependent ==
    [][ /\ \A o \in Owners :
             (\A h \in Handlers : HOwner(h) = o => pc'[h] = pc[h])
             => /\ queues'[o] = queues[o]
                /\ locked'[o] = locked[o]
                /\ waiters'[o] = waiters[o]
        /\ \A h \in Handlers :
             pc'[h] = "wait_lock"
             => /\ \A o \in Owners \ {HOwner(h)} :
                     \A i \in 1..Len(waiters'[o]) : waiters'[o][i] # h
                /\ \E g \in Handlers \ {h} :
                     /\ HOwner(g) = HOwner(h)
                     /\ \E j \in 1..Len(dequeued'[HOwner(h)]) :
                            dequeued'[HOwner(h)][j].by = g ]_vars

\* jobs of two different owners are in the Processing section at the same
\* time, each holding its own owner's lock
C5_Witness ==
    \E h1, h2 \in Handlers :
        /\ HOwner(h1) # HOwner(h2)
        /\ InProcessing(h1) /\ InProcessing(h2)
        /\ locked[HOwner(h1)] /\ locked[HOwner(h2)]

\* how many times task t of owner o was handed out by next_task
TimesDequeued(o, t) ==
    Cardinality({j \in 1..Len(dequeued[o]) : dequeued[o][j].task.id = t})

\* C6: every task accepted by enqueue is consumed exactly once: it is never
\* handed out twice, the invocation that takes it belongs to the task's
\* owner, once dequeued it is no longer in the queue, and when the
\* invocation that enqueued it has ended it has been handed out.
C6_ConsumedExactlyOnce ==
    \A o \in Owners :
        /\ \A i \in 1..Len(accepted[o]) :
             LET t == accepted[o][i] IN
             /\ TimesDequeued(o, t) <= 1
             /\ pc[t] \in Ended => TimesDequeued(o, t) = 1
        /\ \A j \in 1..Len(dequeued[o]) :
             /\ dequeued[o][j].task.user_id = o
             /\ HOwner(dequeued[o][j].by) = o
             /\ \A i \in 1..Len(queues[o]) : queues[o][i] # dequeued[o][j].task

\* C7: when the OCR worker has not finished at the timeout's expiry,
\* read_text returns None to its caller instead of raising: the invocation
\* whose recognition timed out holds None and goes on to its reply.
C7_TimeoutReturnsNone ==
    \A h \in Handlers :
        cause[h] = "timeout" => (text[h] = None /\ pc[h] = "reply_notext")

\* read_text has returned None on a timeout while its worker is still
\* running the job
C7_Witness ==
    \E h \in Handlers :
        /\ cause[h] = "timeout"
        /\ text[h] = None
        /\ job[h].st = "running"

\* C8: on every exit path of read_text once the temp file has been created,
\* the temp file no longer exists when read_text has returned or raised.
C8_TempFileRemoved ==
    \A h \in Handlers :
        (HasDequeued(h) /\ pc[h] # "ocr_wait") => ~file[h]

\* C9: within one _perform_ocr run the fallback pass runs only after the
\* primary pass has run and returned empty text; when the primary pass
\* returns non-empty text the fallback pass is never run and the result is
\* derived from the primary text only.
C9_FallbackOnlyAfterEmptyPrimary ==
    \A w \in Threads :
        LET run == ocr[w] IN
        /\ (run.at = "fallback" \/ \E i \in 1..Len(run.passes) :
                                      run.passes[i] = "fallback")
           => (run.passes[1] = "primary" /\ run.primary = <<>>)
        /\ Len(run.passes) = 2 => run.passes = <<"primary", "fallback">>
        /\ (run.passes # <<>> /\ run.primary # <<>>)
           => /\ run.passes = <<"primary">>
              /\ run.at \in {"postprocess", "returned"}
              /\ run.text = run.primary
              /\ run.at = "returned"
                 => run.result = NormalizedOrNone(run.primary)

\* one run has returned after the fallback pass followed an empty primary
\* pass, another has returned a result derived from its primary text alone
C9_Witness ==
    \E w1, w2 \in Threads :
        /\ ocr[w1].at = "returned"
        /\ ocr[w1].passes = <<"primary", "fallback">>
        /\ ocr[w1].primary = <<>>
        /\ ocr[w2].at = "returned"
        /\ ocr[w2].passes = <<"primary">>
        /\ ocr[w2].result # None

\* read_text has returned to invocation h, which has chosen its reply
AtBoundary(h) == pc[h] \in {"reply_notext", "save", "log", "preview"}

\* how the recognition of invocation h went
Outcome(h) ==
    IF cause[h] = "timeout" THEN "timed_out"
    ELSE IF cause[h] = "no_text" THEN "no_text"
    ELSE IF cats[h] = <<>> THEN "no_categories"
    ELSE "categories"

\* what is visible at the orchestration boundary: the value read_text
\* returned and the reply handle_photo chooses from it (lines 52-60)
Observed(h) ==
    [value |-> text[h],
     reply |-> IF Falsy(text[h]) THEN [message |-> "no_text"]
               ELSE [message |-> "preview", body |-> preview(cats[h])]]

\* C10: at the orchestration boundary a recognition that timed out is
\* distinguishable from one that ran to completion and produced no text,
\* and both are distinguishable from text that yielded no categories.
C10_OutcomesDistinguishable ==
    \A h1, h2 \in Handlers :
        (/\ AtBoundary(h1) /\ AtBoundary(h2)
         /\ Outcome(h1) \in {"timed_out", "no_text", "no_categories"}
         /\ Outcome(h2) \in {"timed_out", "no_text", "no_categories"}
         /\ Outcome(h1) # Outcome(h2))
        => Observed(h1) # Observed(h2)

(* ============ CategoryService on the BankCategory objects ============== *)
(* SpecMerge follows calls of merge_duplicates and soft_delete on a list   *)
(* of BankCategory objects.  The objects live in a heap, object id ->      *)
(* field values; a list is a sequence of object ids, so that an assignment *)
(* to a field is seen through every reference to the object.               *)

\* bounds: the longest input list and the number of calls made on it
MaxCats == 3

MaxCalls == 2

\* names and rates (in hundredths) of the input categories
CatNames == { <<"c">>, <<" ", "C">>, <<"b">> }

CatRates == {100, 500}

\* the name arguments of soft_delete
DeleteArgs == { <<"C", " ">>, <<"b">>, <<"a">> }

\* the lists a caller builds: fresh objects 1..n, as handle_photo line 56
\* and handle_manual_input build them
FreshHeaps ==
    UNION {[1..n -> {BankCategory(name, rate) :
                       name \in CatNames, rate \in CatRates}] : n \in 0..MaxCats}

\* the field values of the objects of a list, in list order
ValuesOf(heap, ids) == [i \in 1..Len(ids) |-> heap[ids[i]]]

\* line 18: max(existing.rate, category.rate)
KeepExistingRate(existing_rate, rate) == existing_rate

MaxRate(existing_rate, rate) ==
    IF existing_rate >= rate THEN existing_rate ELSE rate

\* line 19: source_names = existing.merged_from or [existing.name]
SourceNames(existing) ==
    IF existing.merged_from = NoNames \/ existing.merged_from.names = {}
    THEN {existing.name}
    ELSE existing.merged_from.names

\* line 24: merged[key] = category with a new key; a dict keeps its keys in
\* insertion order
InsertKeyFirst(order, key) == <<key>> \o order

InsertKey(order, key) == Append(order, key)

\* lines 14-24 on the heap: merged maps a key to the object stored under
\* it, order is the insertion order of the keys of merged
RECURSIVE MergeObjects(_, _)
MergeObjects(ids, st) ==
    IF ids = <<>> THEN st
    ELSE LET category == st.heap[Head(ids)]
             key == MergeKey(category.name)
         IN  IF key \in DOMAIN st.merged
             THEN LET e == st.merged[key]
                      existing == st.heap[e]
                      updated ==
                          [existing EXCEPT
                             !.rate = MaxRate(existing.rate, category.rate),
                             !.merged_from = Names(SourceNames(existing)
                                                   \cup {category.name})]
                      names == IF key \in DOMAIN st.synonyms
                               THEN st.synonyms[key] ELSE {}
                  IN  MergeObjects(Tail(ids),
                        [st EXCEPT
                           !.heap = [st.heap EXCEPT ![e] = updated],
                           !.synonyms = (key :> (names \cup {category.name}))
                                        @@ st.synonyms])
             ELSE MergeObjects(Tail(ids),
                    [st EXCEPT !.order = InsertKey(st.order, key),
                               !.merged = (key :> Head(ids)) @@ st.merged])

\* line 25: the keys whose merged_from the second loop rewrites
RewrittenKeysAll(st) == DOMAIN st.merged

RewrittenKeys(st) == DOMAIN st.synonyms

\* merge_duplicates on the heap: the heap after the call and the ids of the
\* objects in the returned list
MergeOnHeap(heap, ids) ==
    LET st == MergeObjects(ids, [heap |-> heap, order |-> <<>>,
                                 merged |-> <<>>, synonyms |-> <<>>])
        rewritten == {st.merged[key] : key \in RewrittenKeys(st)}
        names(e) == LET key == MergeKey(st.heap[e].name) IN
                    IF key \in DOMAIN st.synonyms THEN st.synonyms[key] ELSE {}
    IN  [heap |-> [e \in DOMAIN st.heap |->
                     IF e \in rewritten
                     THEN [st.heap[e] EXCEPT
                             !.merged_from = Names({st.heap[e].name}
                                                   \cup names(e))]
                     ELSE st.heap[e]],
         out  |-> [i \in 1..Len(st.order) |-> st.merged[st.order[i]]]]

\* line 38: the entry matches the normalized argument
MatchesExactName(category_name, normalized) == category_name = normalized

MatchesName(category_name, normalized) ==
    lower(strip(category_name)) = normalized

\* soft_delete on the heap: the heap after the call; the list returned is
\* the list passed in
SoftDeleteOnHeap(heap, ids, name) ==
    LET normalized == lower(strip(name)) IN
    [e \in DOMAIN heap |->
       IF (\E i \in 1..Len(ids) : ids[i] = e)
          /\ MatchesName(heap[e].name, normalized)
       THEN [heap[e] EXCEPT !.deleted = TRUE]
       ELSE heap[e]]

\* the caller holds a list of fresh objects and has called nothing yet
InitMerge ==
    /\ InitBot
    /\ ocr = [w \in Threads |-> IdleRun]
    /\ mem \in {[at |-> "ready", heap |-> heap,
                 list |-> [i \in DOMAIN heap |-> i],
                 calls |-> <<>>] : heap \in FreshHeaps}
    /\ prs = NotCalled
    /\ img = NotCalled
    /\ game = NotCalled
    /\ del = NotCalled
    /\ wiz = NotCalled
    /\ post = NotCalled

\* merged = merge_duplicates(list); the caller goes on with merged
MergeCall ==
    /\ mem.at = "ready"
    /\ Len(mem.calls) < MaxCalls
    /\ LET r == MergeOnHeap(mem.heap, mem.list) IN
       mem' = [mem EXCEPT
                 !.heap = r.heap,
                 !.list = r.out,
                 !.calls = Append(@, [op |-> "merge_duplicates",
                                      before |-> mem.heap,
                                      input |-> mem.list,
                                      output |-> r.out,
                                      returned |-> ValuesOf(r.heap, r.out)])]
    /\ UNCHANGED <<bot, ocr, prs, img, game, del, wiz, post>>

\* soft_delete(list, name)
SoftDeleteCall ==
    /\ mem.at = "ready"
    /\ Len(mem.calls) < MaxCalls
    /\ \E name \in DeleteArgs :
         LET h == SoftDeleteOnHeap(mem.heap, mem.list, name) IN
         mem' = [mem EXCEPT
                   !.heap = h,
                   !.calls = Append(@, [op |-> "soft_delete",
                                        name |-> name,
                                        before |-> mem.heap,
                                        input |-> mem.list,
                                        output |-> mem.list,
                                        returned |-> ValuesOf(h, mem.list)])]
    /\ UNCHANGED <<bot, ocr, prs, img, game, del, wiz, post>>

NextMerge ==
    \/ MergeCall
    \/ SoftDeleteCall

SpecMerge == InitMerge /\ [][NextMerge]_vars

\* the calls made so far that are calls of op
CallsOf(op) == {k \in 1..Len(mem.calls) : mem.calls[k].op = op}

\* the heap when call k returned: the heap the next call found, or the
\* present one
HeapAfter(k) ==
    IF k < Len(mem.calls) THEN mem.calls[k + 1].before ELSE mem.heap

\* C11: merge_duplicates does not mutate or alias its input: after the call
\* every input record has the same name, rate, merged_from and deleted
\* values as before it, and no record of the returned list is the same
\* object as an input record.
C11_MergeLeavesInputAlone ==
    mem.at = "ready" =>
    \A k \in CallsOf("merge_duplicates") :
        LET c == mem.calls[k] IN
        /\ \A i \in 1..Len(c.input) :
             HeapAfter(k)[c.input[i]] = c.before[c.input[i]]
        /\ \A i \in 1..Len(c.input), j \in 1..Len(c.output) :
             c.output[j] # c.input[i]

\* the input entries of call c, as they were before the call
InputValues(c) == ValuesOf(c.before, c.input)

\* the input entries of call c whose name has the key
GroupOf(c, key) ==
    {i \in 1..Len(c.input) : MergeKey(InputValues(c)[i].name) = key}

\* C12: for every group of input entries whose names are equal after
\* trim+lowercase, the returned list holds a single entry of the group, its
\* rate is the maximum rate of the group and, when the group has more than
\* one entry, its merged_from is, as a set, the names of all entries of the
\* group.
C12_MergedRateAndNames ==
    mem.at = "ready" =>
    \A k \in CallsOf("merge_duplicates") :
        LET c == mem.calls[k]
            in == InputValues(c)
        IN  \A i \in 1..Len(in) :
              LET key == MergeKey(in[i].name)
                  group == GroupOf(c, key)
                  out == {j \in 1..Len(c.returned) :
                            MergeKey(c.returned[j].name) = key}
              IN  /\ Cardinality(out) = 1
                  /\ \A j \in out :
                       /\ \A g \in group : c.returned[j].rate >= in[g].rate
                       /\ \E g \in group : c.returned[j].rate = in[g].rate
                       /\ Cardinality(group) > 1
                          => c.returned[j].merged_from
                             = Names({in[g].name : g \in group})

\* a merge call met a group of three spellings in which a later entry has
\* the higher rate
C12_Witness ==
    /\ mem.at = "ready"
    /\ \E k \in CallsOf("merge_duplicates") :
         LET c == mem.calls[k]
             in == InputValues(c)
         IN  /\ Len(in) = 3 /\ Len(c.returned) = 2
             /\ in[1].name # in[3].name
             /\ MergeKey(in[1].name) = MergeKey(in[3].name)
             /\ in[1].rate < in[3].rate
             /\ c.returned[1].rate = in[3].rate

\* an entry as idempotence compares it
Compared(category) ==
    [key |-> MergeKey(category.name), rate |-> category.rate,
     merged_from |-> category.merged_from]

\* C13: merge_duplicates is idempotent: merge(merge(X)) has the same entries
\* in the same order as merge(X), compared by normalized name, rate and
\* merged_from taken as a set.
C13_MergeIdempotent ==
    mem.at = "ready" =>
    \A k \in CallsOf("merge_duplicates") :
        (k + 1) \in CallsOf("merge_duplicates") =>
        LET once == mem.calls[k].returned
            twice == mem.calls[k + 1].returned
        IN  /\ Len(twice) = Len(once)
            /\ \A i \in 1..Len(once) : Compared(twice[i]) = Compared(once[i])

\* merge was applied to the result of a merge that had joined duplicates
C13_Witness ==
    /\ mem.at = "ready"
    /\ \E k \in CallsOf("merge_duplicates") :
         /\ (k + 1) \in CallsOf("merge_duplicates")
         /\ Len(mem.calls[k].returned) < Len(mem.calls[k].input)
         /\ Len(mem.calls[k].returned) >= 2

\* C14: soft_delete(categories, name) sets deleted on exactly the entries
\* whose trim+lowercase name equals the trim+lowercase argument (the key
\* merge_duplicates groups by); every other entry, every name, rate and
\* merged_from, and the length and order of the list stay as they were, and
\* applying it twice gives the same result as once.
C14_SoftDeleteExact ==
    mem.at = "ready" =>
    \A k \in CallsOf("soft_delete") :
        LET c == mem.calls[k]
            in == InputValues(c)
        IN  /\ c.output = c.input
            /\ Len(c.returned) = Len(in)
            /\ \A i \in 1..Len(in) :
                 c.returned[i] =
                   [in[i] EXCEPT
                      !.deleted = in[i].deleted
                                  \/ MergeKey(in[i].name) = MergeKey(c.name)]
            /\ \A e \in DOMAIN c.before :
                 (\A i \in 1..Len(c.input) : c.input[i] # e)
                 => HeapAfter(k)[e] = c.before[e]
            /\ ((k + 1) \in CallsOf("soft_delete")
                /\ mem.calls[k + 1].name = c.name)
               => mem.calls[k + 1].returned = c.returned

\* soft_delete was applied twice with a name spelled unlike the entries it
\* matches, and left an entry with another key alone
C14_Witness ==
    /\ mem.at = "ready"
    /\ Len(mem.calls) = 2
    /\ mem.calls[1].op = "soft_delete" /\ mem.calls[2].op = "soft_delete"
    /\ mem.calls[1].name = mem.calls[2].name
    /\ \E i, j \in 1..Len(mem.calls[1].returned) :
         /\ mem.calls[1].returned[i].deleted
         /\ mem.calls[1].returned[i].name # mem.calls[1].name
         /\ ~mem.calls[1].returned[j].deleted

(* ================= ParserService.parse, step by step ================== *)
(* SpecParse follows one call of parse on a text of sample lines: the      *)
(* pattern strategy, then (if taken) the line strategy, then the return.   *)

\* bound: the number of lines of the input text
MaxLines == 2

\* lines of the form "<name> <rate>%": the names and the rates
FormNames == { <<"a">>, <<"a", "b">> }

FormRates == { <<"5">>, <<"1", "0">>, <<"3", ",", "5">> }

FormItems == [name : FormNames, rate : FormRates]

RenderLine(item) == item.name \o <<" ">> \o item.rate \o <<"%">>

\* lines of other shapes
OtherLines ==
    { <<"a", " ", "-", " ", "4">>,
      <<"a", ":", "n", "a", "n">>,
      <<"a", "-", "b">>,
      <<"a", "b">>,
      <<"a", ":", "5", "%">>,
      <<"b", ":", " ", "3", ",", "5">> }

SampleLines == {RenderLine(item) : item \in FormItems} \cup OtherLines

\* the input texts: up to MaxLines sample lines joined by line breaks
ParseTexts ==
    {join(lines) : lines \in UNION {[1..n -> SampleLines] : n \in 0..MaxLines}}

InitParse ==
    /\ InitBot
    /\ ocr = [w \in Threads |-> IdleRun]
    /\ mem = NotCalled
    /\ prs \in {[at |-> "called", text |-> t, matched |-> <<>>,
                 used_lines |-> FALSE, categories |-> <<>>,
                 quality |-> 0] : t \in ParseTexts}
    /\ img = NotCalled
    /\ game = NotCalled
    /\ del = NotCalled
    /\ wiz = NotCalled
    /\ post = NotCalled

\* lines 15-19: the pattern strategy
ParsePattern ==
    /\ prs.at = "called"
    /\ LET matched == FindIter(prs.text, 1) IN
       prs' = [prs EXCEPT !.at = "matched", !.matched = matched,
                          !.categories = matched]
    /\ UNCHANGED <<bot, ocr, mem, img, game, del, wiz, post>>

\* lines 20-22: the line strategy; a CashbackItem that cannot be built
\* raises out of parse
ParseLines ==
    /\ prs.at = "matched"
    /\ NeedsLineStrategy(prs.categories)
    /\ LET fallback == _parse_lines(splitlines(prs.text)) IN
       prs' = IF fallback.raises
              THEN [prs EXCEPT !.at = "raised", !.used_lines = TRUE]
              ELSE [prs EXCEPT !.at = "extended", !.used_lines = TRUE,
                               !.categories = @ \o fallback.items]
    /\ UNCHANGED <<bot, ocr, mem, img, game, del, wiz, post>>

\* line 23: the ParsedResult is built and returned
ParseReturn ==
    /\ \/ prs.at = "extended"
       \/ prs.at = "matched" /\ ~NeedsLineStrategy(prs.categories)
    /\ prs' = [prs EXCEPT !.at = "returned",
                          !.quality = QualityOf(prs.categories)]
    /\ UNCHANGED <<bot, ocr, mem, img, game, del, wiz, post>>

NextParse ==
    \/ ParsePattern
    \/ ParseLines
    \/ ParseReturn

SpecParse == InitParse /\ [][NextParse]_vars

\* the texts made of lines of the form "<name> <rate>%", by their items
FormTexts == UNION {[1..n -> FormItems] : n \in 1..MaxLines}

\* the number a rate is written as (comma read as decimal point)
RateValue(rate) == float(replace(rate, <<",">>, <<".">>))

\* C15: for text made of lines of the form "<name> <rate>%", name a run of
\* letters and rate a decimal of one or more digits optionally followed by
\* "." or "," and more digits, parse returns exactly one category per line,
\* in line order, with the line's name and the line's number as rate.
C15_OneCategoryPerLine ==
    \A items \in FormTexts :
        (/\ prs.at \in {"returned", "raised"}
         /\ prs.text = join([i \in 1..Len(items) |-> RenderLine(items[i])]))
        => /\ prs.at = "returned"
           /\ prs.categories =
                [i \in 1..Len(items) |->
                   CashbackItem(items[i].name, RateValue(items[i].rate))]

\* C16: parse runs the line strategy only when the pattern strategy found no
\* match in the whole text; when the pattern strategy finds a match, the
\* result holds exactly the pattern matches in text order and no entry of
\* the line strategy.
C16_LinesOnlyAfterNoMatch ==
    prs.at # "idle" =>
    /\ prs.used_lines => prs.matched = <<>>
    /\ (prs.at = "returned" /\ prs.matched # <<>>)
       => /\ ~prs.used_lines
          /\ prs.categories = prs.matched
          /\ prs.matched = FindIter(prs.text, 1)

\* parse returned the pattern matches of a text in which the line strategy
\* would have found an entry as well
C16_Witness ==
    /\ prs.at = "returned"
    /\ prs.matched # <<>>
    /\ ~prs.used_lines
    /\ _parse_lines(splitlines(prs.text)).items # <<>>

\* what the line strategy is to yield: one category for each line that
\* splits on "-" or ":" into at least two segments and whose second segment,
\* trimmed, without "%" and with "," read as ".", is a number
RECURSIVE LineCategories(_)
LineCategories(lines) ==
    IF lines = <<>> THEN <<>>
    ELSE LET parts == SplitSep(Head(lines), <<>>, <<>>)
             number == replace(replace(strip(parts[2]), <<"%">>, <<>>),
                               <<",">>, <<".">>)
         IN  IF Len(parts) >= 2 /\ IsDecimal(number)
             THEN <<CashbackItem(strip(parts[1]), float(number))>>
                  \o LineCategories(Tail(lines))
             ELSE LineCategories(Tail(lines))

\* C17: when the pattern strategy finds nothing, each line with a numeric
\* second segment yields one category and every other line is skipped
\* without raising, so that parse returns a result for every input text.
C17_LinesSkippedNotRaised ==
    prs.at # "idle" =>
    /\ prs.at # "raised"
    /\ (prs.at = "returned" /\ prs.matched = <<>>)
       => prs.categories = LineCategories(splitlines(prs.text))

\* C18: the result of parse has quality 1.0 if and only if its category
\* list is non-empty, and quality 0.0 otherwise, whichever strategy produced
\* the categories.
C18_QualityIffCategories ==
    prs.at = "returned" =>
    /\ prs.quality \in {0, 1}
    /\ prs.quality = 1 <=> prs.categories # <<>>

\* results of all three kinds: categories of the pattern strategy and of the
\* line strategy with quality 1.0, no category with quality 0.0
C18_Witness ==
    /\ prs.at = "returned"
    /\ prs.used_lines
    /\ prs.categories # <<>>
    /\ prs.quality = 1

(* ==================== ImageSafetyService.validate ===================== *)
(* SpecSafety follows one call of validate on image bytes of a length near *)
(* one of the two limits.                                                  *)

\* bound: how far from a limit the sampled lengths reach
SizeMargin == 30

\* len(image_bytes) of the images validated
ImageLengths ==
    {0} \cup ((MIN_SIZE - SizeMargin)..(MIN_SIZE + SizeMargin))
        \cup ((MAX_SIZE - SizeMargin)..(MAX_SIZE + SizeMargin))

\* no ImageSafetyReport yet
NoReport == [ok |-> FALSE, reason |-> "pending"]

InitSafety ==
    /\ InitBot
    /\ ocr = [w \in Threads |-> IdleRun]
    /\ mem = NotCalled
    /\ prs = NotCalled
    /\ img \in {[at |-> "called", size |-> n, report |-> NoReport] :
                  n \in ImageLengths}
    /\ game = NotCalled
    /\ del = NotCalled
    /\ wiz = NotCalled
    /\ post = NotCalled

\* lines 17-23: the report is returned; nothing else is touched
Validate ==
    /\ img.at = "called"
    /\ img' = [img EXCEPT !.at = "returned", !.report = validate(img.size)]
    /\ UNCHANGED <<bot, ocr, mem, prs, game, del, wiz, post>>

\* the service is stateless: the next image is validated
ValidateNext ==
    /\ img.at = "returned"
    /\ \E n \in ImageLengths :
         img' = [at |-> "called", size |-> n, report |-> NoReport]
    /\ UNCHANGED <<bot, ocr, mem, prs, game, del, wiz, post>>

NextSafety ==
    \/ Validate
    \/ ValidateNext

SpecSafety == InitSafety /\ [][NextSafety]_vars

\* C19: validate is a total function of the byte length n alone: ok=false
\* with reason too_small iff n < 1024, ok=false with reason too_large iff
\* n > 8 MiB, ok=true with no reason iff 1024 <= n <= 8 MiB; it changes no
\* state.
C19_ValidateBySize ==
    [][ img.at = "called" =>
        /\ img'.at = "returned"
        /\ img'.size = img.size
        /\ img'.report =
             (IF img.size < 1024
              THEN [ok |-> FALSE, reason |-> "too_small"]
              ELSE IF img.size > 8 * 1024 * 1024
                   THEN [ok |-> FALSE, reason |-> "too_large"]
                   ELSE [ok |-> TRUE, reason |-> "None"])
        /\ UNCHANGED <<bot, ocr, mem, prs, game, del, wiz, post>> ]_vars

\* an image of exactly 8 MiB was accepted
C19_Witness ==
    /\ img.at = "returned"
    /\ img.size = 8 * 1024 * 1024
    /\ img.report.ok

(* ====================== GamificationService.award ===================== *)
(* SpecGame follows concurrent award calls: GamificationService.award and  *)
(* AsyncDatabase.increment_points, which runs under the database's one     *)
(* asyncio.Lock, on a users table whose rows exist.                        *)

\* bound: the number of award calls
NumAwards == 3

AwardCalls == 1..NumAwards

\* the user_id call c is made for
AwardUser(c) == ((c - 1) % NumOwners) + 1

\* the action arguments
AwardActions == {"add_bank", "update_bank", "manual_edit", "login"}

\* ACTION_POINTS.get(action, 0)
ActionPoints(action) ==
    CASE action = "add_bank" -> 1
      [] action = "update_bank" -> 1
      [] action = "manual_edit" -> 2
      [] OTHER -> 0

\* AsyncDatabase._calculate_level over _LEVEL_THRESHOLDS
_calculate_level(points) ==
    IF points >= 60 THEN "Diamond"
    ELSE IF points >= 30 THEN "Gold"
    ELSE IF points >= 10 THEN "Silver"
    ELSE "Bronze"

NoAward == [pc |-> "idle", points |-> 0, total |-> 0, level |-> "Bronze"]

InitGame ==
    /\ InitBot
    /\ ocr = [w \in Threads |-> IdleRun]
    /\ mem = NotCalled
    /\ prs = NotCalled
    /\ img = NotCalled
    /\ game = [at |-> "open",
               points |-> [u \in Owners |-> 0],
               level |-> [u \in Owners |-> "Bronze"],
               locked |-> FALSE,
               waiters |-> <<>>,
               calls |-> [c \in AwardCalls |-> NoAward],
               log |-> [u \in Owners |-> <<>>]]
    /\ del = NotCalled
    /\ wiz = NotCalled
    /\ post = NotCalled

\* asyncio.Lock.acquire() of AsyncDatabase._lock returns at once
DbLockUnguarded == TRUE

DbLockFree == ~game.locked /\ game.waiters = <<>>

\* gamification.py 28-29 and db.py 234: the points of the action are looked
\* up and increment_points takes the lock or waits for it
AwardBegin(c) ==
    /\ game.calls[c].pc = "idle"
    /\ \E action \in AwardActions :
         IF DbLockFree
         THEN game' = [game EXCEPT
                         !.locked = TRUE,
                         !.calls[c].pc = "locked",
                         !.calls[c].points = ActionPoints(action)]
         ELSE game' = [game EXCEPT
                         !.waiters = Append(@, c),
                         !.calls[c].pc = "wait",
                         !.calls[c].points = ActionPoints(action)]
    /\ UNCHANGED <<bot, ocr, mem, prs, img, del, wiz, post>>

\* the lock was released and call c is its first waiter
AwardLockGranted(c) ==
    /\ game.calls[c].pc = "wait"
    /\ ~game.locked
    /\ game.waiters # <<>> /\ Head(game.waiters) = c
    /\ game' = [game EXCEPT !.locked = TRUE, !.waiters = Tail(@),
                            !.calls[c].pc = "locked"]
    /\ UNCHANGED <<bot, ocr, mem, prs, img, del, wiz, post>>

\* db.py 237-241: UPDATE users SET points = points + ? and commit
AwardUpdate(c) ==
    LET u == AwardUser(c) IN
    /\ game.calls[c].pc = "locked"
    /\ game' = [game EXCEPT
                  !.points[u] = @ + game.calls[c].points,
                  !.log[u] = Append(@, c),
                  !.calls[c].pc = "committed"]
    /\ UNCHANGED <<bot, ocr, mem, prs, img, del, wiz, post>>

\* db.py 242-250: SELECT points and the level of that total
AwardSelect(c) ==
    LET total_points == game.points[AwardUser(c)] IN
    /\ game.calls[c].pc = "committed"
    /\ game' = [game EXCEPT
                  !.calls[c].pc = "selected",
                  !.calls[c].total = total_points,
                  !.calls[c].level = _calculate_level(total_points)]
    /\ UNCHANGED <<bot, ocr, mem, prs, img, del, wiz, post>>

\* db.py 251-256 and gamification.py 30: UPDATE level, commit, the lock is
\* released and award returns GamificationProfile(total_points, level)
AwardReturn(c) ==
    /\ game.calls[c].pc = "selected"
    /\ game' = [game EXCEPT
                  !.level[AwardUser(c)] = game.calls[c].level,
                  !.locked = FALSE,
                  !.calls[c].pc = "returned"]
    /\ UNCHANGED <<bot, ocr, mem, prs, img, del, wiz, post>>

\* GamificationService.profile(user_id): the row as it is committed
profile(u) == [points |-> game.points[u], level |-> game.level[u]]

NextGame ==
    \/ \E c \in AwardCalls : AwardBegin(c)
    \/ \E c \in AwardCalls : AwardLockGranted(c)
    \/ \E c \in AwardCalls : AwardUpdate(c)
    \/ \E c \in AwardCalls : AwardSelect(c)
    \/ \E c \in AwardCalls : AwardReturn(c)

SpecGame == InitGame /\ [][NextGame]_vars

\* the sum of the points of the award calls cs
RECURSIVE PointsOf(_)
PointsOf(cs) ==
    IF cs = <<>> THEN 0
    ELSE game.calls[Head(cs)].points + PointsOf(Tail(cs))

\* the calls for user u whose award has been made
Awarded(u) ==
    {c \in AwardCalls :
       AwardUser(c) = u /\ game.calls[c].pc \in {"committed", "selected",
                                                  "returned"}}

\* C20: after any sequence of award calls for a user, concurrent ones
\* included, each award returns the running total (the sum up to and
\* including its own points, in the order the awards were made) and
\* profile(user).points is the sum of the points of all awarded actions: no
\* award is lost or counted twice.
C20_AwardsAddUp ==
    game.at = "open" =>
    \A u \in Owners :
        /\ profile(u).points = PointsOf(game.log[u])
        /\ {game.log[u][i] : i \in 1..Len(game.log[u])} = Awarded(u)
        /\ Len(game.log[u]) = Cardinality(Awarded(u))
        /\ \A i \in 1..Len(game.log[u]) :
             LET c == game.log[u][i] IN
             game.calls[c].pc \in {"selected", "returned"}
             => game.calls[c].total = PointsOf(SubSeq(game.log[u], 1, i))

\* two awards for one user ran concurrently (the second waited for the
\* lock) and both returned, the second with the sum of both
C20_Witness ==
    /\ game.at = "open"
    /\ \E c1, c2 \in AwardCalls :
         /\ c1 # c2 /\ AwardUser(c1) = AwardUser(c2)
         /\ game.log[AwardUser(c1)] = <<c1, c2>>
         /\ game.calls[c1].pc = "returned" /\ game.calls[c2].pc = "returned"
         /\ game.calls[c1].points = 1 /\ game.calls[c2].points = 2
         /\ game.calls[c2].total = 3
         /\ profile(AwardUser(c1)).points = 3

(* ==================== handle_photo under fair scheduling =============== *)
(* SpecFair is Spec with the scheduling the code relies on: the event loop *)
(* resumes every coroutine whose awaited operation is over (a reply was    *)
(* delivered or failed, a free lock is handed to its first waiter,         *)
(* wait_for has a result, an exception or a timeout) and the worker pool   *)
(* starts and finishes its jobs.  The arrival of an update is not          *)
(* scheduled by the code and is not forced.                                *)

\* the places at which handle_photo awaits a reply, save_bank or log_ocr
AwaitsIO ==
    {"reply_unsuitable", "reply_busy", "reply_started", "reply_notext",
     "save", "log", "preview"}

\* the event loop can resume invocation h: what h awaits is over.  At
\* "ocr_wait" wait_for always ends, with the job's outcome or the timeout.
Resumable(h) ==
    \/ pc[h] \in AwaitsIO
    \/ /\ pc[h] = "wait_lock"
       /\ ~locked[get_lock(HOwner(h))]
       /\ waiters[get_lock(HOwner(h))] # <<>>
       /\ Head(waiters[get_lock(HOwner(h))]) = h
    \/ /\ pc[h] = "ocr_wait"
       /\ job[h].st \in {"queued", "running", "finished", "failed"}

\* the event loop resumes invocation h, which runs to its next await or to
\* its end: the steps of Next that move pc[h] from a place after "start"
Resumes(h) ==
    /\ Resumable(h)
    /\ \E np \in (AwaitsIO \cup {"wait_lock", "ocr_wait"} \cup Ended) \ {pc[h]} :
         pc' = [pc EXCEPT ![h] = np]

\* a step of the worker pool on the job of invocation h
WorkerStep(h) ==
    \/ WorkerStart(h)
    \/ WorkerRaises(h)
    \/ WorkerFinish(h)

Fairness ==
    \A h \in Handlers : WF_pc(Resumes(h)) /\ WF_vars(WorkerStep(h))

SpecFair == Init /\ [][Next]_vars /\ Fairness

\* owner o is Idle: queue empty and lock free
Idle(o) == queues[o] = <<>> /\ ~locked[o]

\* C21: under fair scheduling every task accepted into an owner's queue is
\* eventually dequeued (a task leaves the queue only by next_task) and the
\* owner eventually returns to Idle (queue empty and lock free), also when
\* the status reply, the OCR call or the storage save fails or times out.
C21_AcceptedEventuallyDone ==
    \A o \in Owners : (queues[o] # <<>>) ~> Idle(o)

\* C22: when read_text times out the in-flight OCR call is cancelled: once
\* read_text has returned None the timed-out job occupies no worker of the
\* pool, so every job that holds a worker thread belongs to a read_text call
\* that is still waiting for it, and later jobs are not delayed by it.
C22_TimedOutJobLeavesPool ==
    \A h \in Handlers :
        job[h].st = "running" => (pc[h] = "ocr_wait" /\ ~job[h].abandoned)

\* C23: when _perform_ocr returns None for a decodable image, both the
\* primary and the fallback pass were run and both produced no usable text:
\* None never follows a run of the primary pass alone.
C23_NoneOnlyAfterBothPasses ==
    \A w \in Threads :
        LET run == ocr[w] IN
        (run.at = "returned" /\ run.passes # <<>> /\ run.result = None)
        => /\ run.passes = <<"primary", "fallback">>
           /\ NormalizedOrNone(run.primary) = None
           /\ NormalizedOrNone(run.text) = None

\* the positions of call c's input at which a key occurs for the first time
FirstOccurrences(c) ==
    {i \in 1..Len(c.input) :
       \A j \in 1..(i - 1) :
          MergeKey(InputValues(c)[j].name) # MergeKey(InputValues(c)[i].name)}

\* the n-th first occurrence, in input order
NthFirst(c, n) ==
    CHOOSE i \in FirstOccurrences(c) :
        Cardinality({x \in FirstOccurrences(c) : x < i}) = n - 1

\* C24: the list merge_duplicates returns has exactly one entry for each
\* distinct trim+lowercase name of the input, no key of the input is
\* missing, and the entries stand in the order in which their keys first
\* occur in the input.
C24_OneEntryPerKeyInOrder ==
    mem.at = "ready" =>
    \A k \in CallsOf("merge_duplicates") :
        LET c == mem.calls[k] IN
        /\ Len(c.returned) = Cardinality(FirstOccurrences(c))
        /\ \A n \in 1..Len(c.returned) :
             MergeKey(c.returned[n].name)
             = MergeKey(InputValues(c)[NthFirst(c, n)].name)

\* a merge call met two spellings of one key with another key between them
C24_Witness ==
    /\ mem.at = "ready"
    /\ \E k \in CallsOf("merge_duplicates") :
         LET c == mem.calls[k]
             in == InputValues(c)
         IN  /\ Len(in) = 3 /\ Len(c.returned) = 2
             /\ MergeKey(in[1].name) = MergeKey(in[3].name)
             /\ MergeKey(in[1].name) # MergeKey(in[2].name)
             /\ in[1].name # in[3].name
             /\ MergeKey(c.returned[2].name) = MergeKey(in[2].name)

(* ==================== handle_delete and the banks table ================ *)
(* SpecDelete follows concurrent handle_delete invocations on one stored   *)
(* bank of user 1.  Each await of the handler is a point where another     *)
(* invocation may run; a statement on the database is atomic.              *)

\* bound: the handle_delete invocations in flight
NumDeletes == 2

DeleteCalls == 1..NumDeletes

\* the id and the name of the stored bank
BANK_ID == 1

BANK_NAME == "bank"

\* the category lists handle_photo stores: merge_duplicates of a parsed list
StoredLists ==
    {merge_duplicates(l) :
       l \in UNION {[1..n -> {BankCategory(name, 100) : name \in CatNames}] :
                      n \in 1..MaxCats}}

\* query.data.split(":"): the number of parts, parts[1] as action, the bank
\* id of parts[2] and parts[3] as category name; the keyboards send
\* bank:preview:<id>, bank:delete:<id>, bank:categories:<id> and
\* category:delete:<id>:<name>
CallbackParts ==
    {[len |-> 3, action |-> a, bank_id |-> BANK_ID, name |-> <<>>] :
       a \in {"preview", "delete", "categories"}}
    \cup {[len |-> 4, action |-> a, bank_id |-> BANK_ID, name |-> n] :
            a \in {"delete", "categories"}, n \in DeleteArgs}
    \cup {[len |-> 2, action |-> "delete", bank_id |-> BANK_ID, name |-> <<>>]}

\* CategoryService.soft_delete on the objects list_banks has just built
soft_delete(categories, name) ==
    [i \in 1..Len(categories) |->
       IF MatchesName(categories[i].name, lower(strip(name)))
       THEN [categories[i] EXCEPT !.deleted = TRUE]
       ELSE categories[i]]

\* Bank.active_categories
active_categories(bank) ==
    SelectSeq(bank.categories, LAMBDA category : ~category.deleted)

\* an invocation that has not started
NoDelete ==
    [pc |-> "idle", parts |-> [len |-> 0], user_id |-> 0,
     updated |-> <<>>, matched |-> FALSE, wrote |-> FALSE]

InitDelete ==
    /\ InitBot
    /\ ocr = [w \in Threads |-> IdleRun]
    /\ mem = NotCalled
    /\ prs = NotCalled
    /\ img = NotCalled
    /\ game = NotCalled
    /\ wiz = NotCalled
    /\ post = NotCalled
    /\ del \in {[at |-> "open",
                 present |-> TRUE,
                 bank |-> [id |-> BANK_ID, user_id |-> 1, name |-> BANK_NAME,
                           categories |-> cs],
                 calls |-> [c \in DeleteCalls |-> NoDelete]] :
                  cs \in StoredLists}

\* StorageService.list_banks: the rows of the user, categories rebuilt from
\* categories_json
list_banks(user_id) ==
    IF del.present /\ del.bank.user_id = user_id THEN <<del.bank>> ELSE <<>>

\* StorageService.list_items: an item for every active category of every
\* bank of the user
list_items(user_id) ==
    IF list_banks(user_id) = <<>> THEN <<>>
    ELSE LET bank == list_banks(user_id)[1]
             active == active_categories(bank)
         IN  [i \in 1..Len(active) |->
                [category |-> active[i].name, rate |-> active[i].rate,
                 bank |-> bank.name]]

\* lines 13-24: query.answer(), then the dispatch on the parts
DeleteAnswer(c) ==
    /\ del.calls[c].pc = "idle"
    /\ \E parts \in CallbackParts, user_id \in Owners, ok \in BOOLEAN :
         LET np == IF ~ok THEN "raised"
                   ELSE IF parts.len < 3 THEN "returned"
                   ELSE IF parts.action = "delete" THEN "delete_bank"
                   ELSE IF parts.action = "categories" /\ parts.len >= 4
                        THEN "list_banks"
                   ELSE "returned"
         IN  del' = [del EXCEPT !.calls[c] =
                       [@ EXCEPT !.pc = np, !.parts = parts,
                                 !.user_id = user_id]]
    /\ UNCHANGED <<bot, ocr, mem, prs, img, game, wiz, post>>

\* line 22: storage.delete_bank(bank_id)
DeleteBank(c) ==
    /\ del.calls[c].pc = "delete_bank"
    /\ del' = [del EXCEPT
                 !.present = IF del.calls[c].parts.bank_id = del.bank.id
                             THEN FALSE ELSE @,
                 !.calls[c].pc = "edit"]
    /\ UNCHANGED <<bot, ocr, mem, prs, img, game, wiz, post>>

\* lines 26-32: list_banks returns, the bank is looked up and soft_delete
\* marks the entries of the copy this invocation holds
ListBanks(c) ==
    /\ del.calls[c].pc = "list_banks"
    /\ LET call == del.calls[c]
           banks_read == list_banks(call.user_id)
           found == banks_read # <<>> /\ banks_read[1].id = call.parts.bank_id
       IN  IF ~found
           THEN del' = [del EXCEPT !.calls[c].pc = "edit"]
           ELSE LET read == banks_read[1].categories IN
                del' = [del EXCEPT !.calls[c] =
                          [@ EXCEPT
                             !.pc = "update",
                             !.updated = soft_delete(read, call.parts.name),
                             !.matched =
                                 \E i \in 1..Len(read) :
                                    MatchesName(read[i].name,
                                                lower(strip(call.parts.name)))]]
    /\ UNCHANGED <<bot, ocr, mem, prs, img, game, wiz, post>>

\* line 33: update_bank_categories writes the whole list of the copy
UpdateBankCategories(c) ==
    /\ del.calls[c].pc = "update"
    /\ del' = [del EXCEPT
                 !.bank.categories =
                     IF del.present /\ del.calls[c].parts.bank_id = del.bank.id
                     THEN del.calls[c].updated ELSE @,
                 !.calls[c] = [@ EXCEPT !.pc = "edit", !.wrote = TRUE]]
    /\ UNCHANGED <<bot, ocr, mem, prs, img, game, wiz, post>>

\* lines 23, 30, 34: query.edit_message_text returns or raises
EditMessage(c) ==
    /\ del.calls[c].pc = "edit"
    /\ \E ok \in BOOLEAN :
         del' = [del EXCEPT !.calls[c].pc = IF ok THEN "returned" ELSE "raised"]
    /\ UNCHANGED <<bot, ocr, mem, prs, img, game, wiz, post>>

NextDelete ==
    \E c \in DeleteCalls :
        \/ DeleteAnswer(c)
        \/ DeleteBank(c)
        \/ ListBanks(c)
        \/ UpdateBankCategories(c)
        \/ EditMessage(c)

SpecDelete == InitDelete /\ [][NextDelete]_vars

\* the invocations that soft-deleted an entry and wrote the bank back
WroteBack ==
    {c \in DeleteCalls : del.calls[c].wrote /\ del.calls[c].matched}

\* the stored entries whose name has the key of the name call c was given
StoredOf(c) ==
    {i \in 1..Len(del.bank.categories) :
       MergeKey(del.bank.categories[i].name) = MergeKey(del.calls[c].parts.name)}

MaxRawLines == 3

\* n times the character ch
Rep(ch, n) == [i \in 1..n |-> ch]

\* the lines an engine may print: blank, alphanumeric, with punctuation,
\* with percent signs, padded, and lines that reach past LINE_CAP
RawLines ==
    { <<>>,
      <<" ">>,
      <<"a", "b">>,
      <<"a", " ", "b">>,
      <<"a", "-", "b">>,
      <<" ", "a", "-", "b", "\t">>,
      <<"5", "%">>,
      <<"%", "a", "%">>,
      Rep("-", LINE_CAP - 1) \o <<"%">>,
      Rep("a", LINE_CAP) \o <<"-">>,
      Rep("a", LINE_CAP - 2) \o <<"%", "%">>,
      Rep("-", LINE_CAP + 1) }

\* the raw texts: the lines joined by line breaks, one line at most of
\* them reaching LINE_CAP
RawTexts ==
    {join(l) :
       l \in {x \in UNION {[1..n -> RawLines] : n \in 0..MaxRawLines} :
                Cardinality({i \in DOMAIN x : Len(x[i]) >= LINE_CAP}) <= 1}}

InitPost ==
    /\ InitBot
    /\ ocr = [w \in Threads |-> IdleRun]
    /\ mem = NotCalled
    /\ prs = NotCalled
    /\ img = NotCalled
    /\ game = NotCalled
    /\ del = NotCalled
    /\ wiz = NotCalled
    /\ post \in {[at |-> "called", text |-> t, normalized |-> <<>>] :
                   t \in RawTexts}

\* line 66: normalized = self._postprocess(text or "")
PostprocessCall ==
    /\ post.at = "called"
    /\ post' = [post EXCEPT !.at = "returned",
                            !.normalized = _postprocess(post.text)]
    /\ UNCHANGED <<bot, ocr, mem, prs, img, game, del, wiz>>

NextPost == PostprocessCall

SpecPost == InitPost /\ [][NextPost]_vars

\* the lines of the text _postprocess returned
OutLines == splitlines(post.normalized)

\* the lines of the raw text after the clean-up of lines 76-82
CleanedIn ==
    [k \in 1..Len(splitlines(post.text)) |-> CleanLine(splitlines(post.text)[k])]

\* where a line first stands in a list of lines (0: nowhere)
FirstAt(lines, line) ==
    IF \E k \in 1..Len(lines) : lines[k] = line
    THEN CHOOSE k \in 1..Len(lines) :
            /\ lines[k] = line
            /\ \A j \in 1..(k - 1) : lines[j] # line
    ELSE 0

\* C26: every line of the text _postprocess returns is non-empty, at most
\* 80 characters long and holds a character that is neither alphanumeric
\* nor a space; every '%' in it stands right after a space; no line occurs
\* twice and the lines stand in the order of their first occurrence in the
\* input.
C26_PostprocessedLines ==
    post.at = "returned" =>
    LET out == OutLines
        in == CleanedIn
        at == [i \in 1..Len(out) |-> FirstAt(in, out[i])]
    IN  /\ \A i \in 1..Len(out) :
             /\ out[i] # <<>>
             /\ Len(out[i]) <= LINE_CAP
             /\ \E n \in 1..Len(out[i]) :
                  ~IsAlnumChar(out[i][n]) /\ out[i][n] # " "
             /\ \A n \in 1..Len(out[i]) :
                  out[i][n] = "%" => (n > 1 /\ out[i][n - 1] = " ")
             /\ at[i] > 0
        /\ \A i, j \in 1..Len(out) :
             i < j => (out[i] # out[j] /\ at[i] < at[j])

\* _postprocess returned two lines for a text of three, the second cut at
\* LINE_CAP in front of its '%', the third a repetition of the first in
\* another padding
C26_Witness ==
    /\ post.at = "returned"
    /\ Len(splitlines(post.text)) = 3
    /\ Len(OutLines) = 2
    /\ splitlines(post.text)[1] # splitlines(post.text)[3]
    /\ CleanedIn[1] = CleanedIn[3]
    /\ Len(splitlines(post.text)[2]) = LINE_CAP
    /\ OutLines[2] = Rep("-", LINE_CAP - 1) \o <<" ">>

(* ==================== next_task inside handle_photo ==================== *)

\* invocation h runs line 48 in this step: it has just entered the lock
CallsNextTask(h) ==
    \/ LockGranted(h)
    \/ StatusReplySent(h) /\ CanAcquire(get_lock(HOwner(h)))

\* C27: in handle_photo, next_task under the lock never returns None and
\* always returns the task this same invocation enqueued.
C27_NextTaskReturnsOwnTask ==
    [][\A h \in Handlers :
          CallsNextTask(h)
          => dequeued'[HOwner(h)]
             = Append(dequeued[HOwner(h)], [task |-> QueueTask(h), by |-> h])]_vars

\* an invocation took its own task from the queue while an earlier
\* invocation of the same owner had already taken and finished its own
C27_Witness ==
    \E h1, h2 \in Handlers :
        /\ h1 # h2 /\ HOwner(h1) = HOwner(h2)
        /\ dequeued[HOwner(h1)] = <<[task |-> QueueTask(h1), by |-> h1],
                                    [task |-> QueueTask(h2), by |-> h2]>>
        /\ pc[h1] \in Ended
        /\ pc[h2] = "ocr_wait"

\* C28: handle_photo never stores a bank with an empty category list: when
\* the recognized text yields no categories, storage.save_bank is not
\* called (line 58 is not reached with an empty merged list) and no stored
\* row has an empty list.
C28_NoEmptyBankSaved ==
    /\ \A h \in Handlers : pc[h] = "save" => cats[h] # <<>>
    /\ \A o \in Owners : \A j \in 1..Len(banks[o]) :
          banks[o][j].categories # <<>>

(* ==================== WizardService.finalize =========================== *)
(* SpecWizard follows one finalize call for every user who has a wizard   *)
(* session.  Every AsyncDatabase method runs under AsyncDatabase._lock on  *)
(* a connection of its own and commits before it returns, so each is one   *)
(* step; a statement that raises leaves its uncommitted work undone.       *)

\* bound: the entries of WizardData.categories
MaxWizardCats == 2

\* Optional[str] bank names: None, or a name
BankNames == {None, Str(<<"b">>)}

\* the entries a wizard collects: name and level (the rate plays no part)
WizardEntries ==
    {[name |-> n, level |-> 1] : n \in CatNames}
    \cup {[name |-> <<"c">>, level |-> 2]}

WizardLists == UNION {[1..n -> WizardEntries] : n \in 0..MaxWizardCats}

\* CategoryNormalizer.normalize: the _mapping entry of the trimmed, lowered
\* name, or that name itself; none of the names used here is in _mapping
normalize(category) == lower(strip(category))

\* lines 52-58: the rows handed to replace_bank_categories
RowsOf(categories) ==
    [i \in 1..Len(categories) |->
       [name |-> categories[i].name,
        normalized_name |-> normalize(categories[i].name),
        level |-> categories[i].level]]

\* idx_bank_categories_unique: two rows of one bank with the same
\* normalized name and level cannot be inserted
ViolatesUnique(rows) ==
    \E i, j \in 1..Len(rows) :
        /\ i < j
        /\ rows[i].normalized_name = rows[j].normalized_name
        /\ rows[i].level = rows[j].level

NoFinalize == [pc |-> "idle", bank_name |-> None, categories |-> <<>>,
               user_bank_id |-> 0]

InitWizard ==
    /\ InitBot
    /\ ocr = [w \in Threads |-> IdleRun]
    /\ mem = NotCalled
    /\ prs = NotCalled
    /\ img = NotCalled
    /\ game = NotCalled
    /\ del = NotCalled
    /\ post = NotCalled
    /\ wiz = [at |-> "open",
              user_banks |-> <<>>,
              bank_categories |-> {},
              sessions |-> [u \in Owners |-> TRUE],
              calls |-> [u \in Owners |-> NoFinalize]]

\* lines 48-51: the two checks, then the call of create_user_bank
FinalizeBegin(u) ==
    /\ wiz.calls[u].pc = "idle"
    /\ \E bank_name \in BankNames, categories \in WizardLists :
         wiz' = [wiz EXCEPT !.calls[u] =
                   [@ EXCEPT
                      !.bank_name = bank_name,
                      !.categories = categories,
                      !.pc = IF Falsy(bank_name) \/ categories = <<>>
                             THEN "raised" ELSE "create"]]
    /\ UNCHANGED <<bot, ocr, mem, prs, img, game, del, post>>

\* db.py lines 411-431: the user_banks row is inserted and committed (ok),
\* or the insert raises
CreateUserBank(u) ==
    /\ wiz.calls[u].pc = "create"
    /\ \E ok \in BOOLEAN :
         IF ok
         THEN LET id == Len(wiz.user_banks) + 1 IN
              wiz' = [wiz EXCEPT
                        !.user_banks =
                            Append(@, [id |-> id, user_id |-> u,
                                       custom_name |-> wiz.calls[u].bank_name.str]),
                        !.calls[u] = [@ EXCEPT !.pc = "replace",
                                                !.user_bank_id = id]]
         ELSE wiz' = [wiz EXCEPT !.calls[u].pc = "raised"]
    /\ UNCHANGED <<bot, ocr, mem, prs, img, game, del, post>>

\* db.py lines 467-491: the rows are inserted and committed, or the unique
\* index rejects them and nothing of the call is committed
ReplaceBankCategories(u) ==
    /\ wiz.calls[u].pc = "replace"
    /\ LET rows == RowsOf(wiz.calls[u].categories)
           id == wiz.calls[u].user_bank_id
       IN  IF ViolatesUnique(rows)
           THEN wiz' = [wiz EXCEPT !.calls[u].pc = "raised"]
           ELSE wiz' = [wiz EXCEPT
                          !.bank_categories =
                              {r \in @ : r.user_bank_id # id}
                              \cup {[user_bank_id |-> id,
                                     name |-> rows[i].name,
                                     normalized_name |-> rows[i].normalized_name,
                                     level |-> rows[i].level] :
                                      i \in 1..Len(rows)},
                          !.calls[u].pc = "delete_session"]
    /\ UNCHANGED <<bot, ocr, mem, prs, img, game, del, post>>

\* db.py lines 756-763: the session row is deleted (ok), or the call raises
DeleteWizardSession(u) ==
    /\ wiz.calls[u].pc = "delete_session"
    /\ \E ok \in BOOLEAN :
         IF ok
         THEN wiz' = [wiz EXCEPT !.sessions[u] = FALSE,
                                 !.calls[u].pc = "returned"]
         ELSE wiz' = [wiz EXCEPT !.calls[u].pc = "raised"]
    /\ UNCHANGED <<bot, ocr, mem, prs, img, game, del, post>>

NextWizard ==
    \E u \in Owners :
        \/ FinalizeBegin(u)
        \/ CreateUserBank(u)
        \/ ReplaceBankCategories(u)
        \/ DeleteWizardSession(u)

SpecWizard == InitWizard /\ [][NextWizard]_vars

\* the user_banks rows of user u
BanksOf(u) ==
    {i \in 1..Len(wiz.user_banks) : wiz.user_banks[i].user_id = u}

\* C30: WizardService.finalize is all-or-nothing: whenever it raises, no
\* user_banks row has been created and the wizard session is unchanged;
\* whenever it returns, the bank, all its categories and the deletion of
\* the session have taken effect.
C30_FinalizeAllOrNothing ==
    wiz.at = "open" =>
    \A u \in Owners :
        LET call == wiz.calls[u] IN
        /\ call.pc = "raised" => (BanksOf(u) = {} /\ wiz.sessions[u])
        /\ call.pc = "returned"
           => /\ \E i \in BanksOf(u) : wiz.user_banks[i].id = call.user_bank_id
              /\ \A k \in 1..Len(call.categories) :
                   \E r \in wiz.bank_categories :
                      /\ r.user_bank_id = call.user_bank_id
                      /\ r.name = call.categories[k].name
                      /\ r.level = call.categories[k].level
              /\ ~wiz.sessions[u]

====
